---------------------------- MODULE Spec2Model ----------------------------
(***************************************************************************)
(* slurpd's replication apply engine, servers/slurpd/ldap_op.c:            *)
(* do_ldap (retry/dispatch loop), op_ldap_add / op_ldap_modify /           *)
(* op_ldap_delete / op_ldap_modrdn, do_bind, do_unbind, read_krbnames.     *)
(*                                                                         *)
(* Strings are TLA+ strings.  A C pointer into the record (bv_val, the     *)
(* newrdn argument) is the 1-based index of the Mi it points into.  The    *)
(* LDAP handle ri_ldp is a record; ld_null = TRUE is the NULL pointer.     *)
(* Where the C code has undefined behaviour the outcome is an input `ub`   *)
(* ranging over UBOutcomes.                                                *)
(***************************************************************************)
EXTENDS Integers, Sequences, FiniteSets, TLC

(* ------------------------------ bounds -------------------------------- *)
\* longest ModItem list of a change record
MaxMods == 2
\* longest ModItem list of a modify record given to the compiler on its own
MaxModifyMods == 3
\* ldap_open successes over one run of the model
MaxOpens == 4
\* longest kerberosName value list returned by the search
MaxNames == 2
\* do_bind calls over one run of the session routines on their own
MaxBinds == 2
\* do_unbind calls after one do_bind in such a run
MaxUnbinds == 2

(* ------------------------ protocol constants -------------------------- *)
LDAP_SUCCESS == 0
LDAP_NO_SUCH_OBJECT == 32
LDAP_SERVER_DOWN == 81
\* what a synchronous protocol call can return
NetRcs == {LDAP_SUCCESS, LDAP_NO_SUCH_OBJECT, LDAP_SERVER_DOWN}

DO_LDAP_OK == 0
DO_LDAP_ERR_RETRYABLE == 1
DO_LDAP_ERR_FATAL == 2

BIND_OK == 0
BIND_ERR_OPEN == 2
BIND_ERR_BAD_ATYPE == 3
BIND_ERR_SIMPLE_FAILED == 4
BIND_ERR_KERBEROS_FAILED == 5

T_ADDCT == "T_ADDCT"
T_MODIFYCT == "T_MODIFYCT"
T_DELETECT == "T_DELETECT"
T_MODRDNCT == "T_MODRDNCT"
\* a change type outside the four the switch knows
T_BADCT == "T_BADCT"

T_MODSEPSTR == "-"
T_MODOPADDSTR == "add"
T_MODOPREPLACESTR == "replace"
T_MODOPDELETESTR == "delete"
T_NEWRDNSTR == "newrdn"
T_DRDNFLAGSTR == "deleteoldrdn"

T_MODSEP == "T_MODSEP"
T_MODOPADD == "T_MODOPADD"
T_MODOPREPLACE == "T_MODOPREPLACE"
T_MODOPDELETE == "T_MODOPDELETE"
T_ERR == "T_ERR"
AWAITING_OP == "AWAITING_OP"

AUTH_SIMPLE == "AUTH_SIMPLE"
AUTH_KERBEROS == "AUTH_KERBEROS"
\* a bind method that is neither simple nor Kerberos
AUTH_OTHER == "AUTH_OTHER"

NULL == "NULL"

\* outcomes of a routine that runs into undefined behaviour: the process dies
\* at the first stray access, or every stray access of the routine goes
\* unnoticed and execution continues
UBOutcomes == {"crash", "survive"}

(* ------------------------------ helpers ------------------------------- *)
\* tolower() over the strings the model uses
ToLower(s) ==
    CASE s = "CN" -> "cn"
      [] s = "SN" -> "sn"
      [] OTHER -> s

\* strcasecmp: 0 when equal ignoring case, non-zero otherwise
StrCaseCmp(a, b) == IF ToLower(a) = ToLower(b) THEN 0 ELSE 1

\* strcmp: 0 when equal
StrCmp(a, b) == IF a = b THEN 0 ELSE 1

getmodtype(type) ==
    IF StrCmp(type, T_MODSEPSTR) = 0 THEN T_MODSEP
    ELSE IF StrCmp(type, T_MODOPADDSTR) = 0 THEN T_MODOPADD
    ELSE IF StrCmp(type, T_MODOPREPLACESTR) = 0 THEN T_MODOPREPLACE
    ELSE IF StrCmp(type, T_MODOPDELETESTR) = 0 THEN T_MODOPDELETE
    ELSE T_ERR

\* alloc_ldapmod: mod_type NULL, mod_bvalues NULL (the empty sequence)
alloc_ldapmod == [mod_op |-> NULL, mod_type |-> NULL, mod_bvalues |-> <<>>]


(* --------------------------- change records --------------------------- *)
\* one Mi: mi_type / mi_val (mi_len is the length of mi_val)
Mi(t, v) == [mi_type |-> t, mi_val |-> v]

\* lines a modify record is made of
ModifyItems ==
    { Mi(T_MODSEPSTR, ""), Mi(T_MODOPADDSTR, "cn"), Mi(T_MODOPREPLACESTR, "sn"),
      Mi(T_MODOPDELETESTR, "cn"), Mi("cn", "v1"), Mi("CN", "v2"), Mi("sn", "v3") }

\* lines a rename record is made of
ModrdnItems ==
    { Mi(T_NEWRDNSTR, "cn=New"), Mi(T_DRDNFLAGSTR, "0"), Mi(T_DRDNFLAGSTR, "1"),
      Mi(T_DRDNFLAGSTR, "2"), Mi("cn", "v1") }

\* lines an add record is made of
AddItems == { Mi("cn", "v1"), Mi("sn", "v3") }

SeqsUpTo(S, n) == UNION { [1..k -> S] : k \in 0..n }

\* Re: re_changetype, re_mods (re_mods_null = TRUE is re_mods == NULL)
Re(ct, isnull, mods) ==
    [re_changetype |-> ct, re_mods_null |-> isnull, re_mods |-> mods]

NoRe == Re(NULL, TRUE, <<>>)

Records ==
    { Re(T_ADDCT, FALSE, m) : m \in SeqsUpTo(AddItems, MaxMods) }
    \cup { Re(T_MODIFYCT, FALSE, m) : m \in SeqsUpTo(ModifyItems, MaxMods) }
    \cup { Re(T_MODRDNCT, FALSE, m) : m \in SeqsUpTo(ModrdnItems, MaxMods) }
    \cup { Re(T_MODIFYCT, TRUE, <<>>), Re(T_MODRDNCT, TRUE, <<>>),
           Re(T_DELETECT, TRUE, <<>>), Re(T_BADCT, TRUE, <<>>) }

\* modify records only, with longer ModItem lists
ModifyRecords ==
    { Re(T_MODIFYCT, FALSE, m) : m \in SeqsUpTo(ModifyItems, MaxModifyMods) }

(* -------------------------- operation results ------------------------- *)
\* arguments of a protocol add/modify/delete/rename call
NoArgs == [fn |-> NULL, ldmarr |-> <<>>, newrdn |-> 0, drdnflag |-> -1]

\* what an op_ldap_* routine did: its return value, *errmsg afterwards,
\* whether it made the protocol call and with what, whether the process died
OpRet(lderr, errmsg, called, sent, crash) ==
    [lderr |-> lderr, errmsg |-> errmsg, called |-> called, sent |-> sent,
     crash |-> crash]

(* ----------------------------- op_ldap_add ---------------------------- *)
RECURSIVE AddLoop(_, _, _)
AddLoop(mi, i, ldmarr) ==
    IF i > Len(mi) THEN ldmarr
    ELSE AddLoop(mi, i + 1,
                 Append(ldmarr, [alloc_ldapmod EXCEPT !.mod_op = "LDAP_MOD_BVALUES",
                                                      !.mod_type = mi[i].mi_type,
                                                      !.mod_bvalues = <<i>>]))

\* net: what ldap_add_s leaves in ld_errno; ub: outcome of free_ldmarr(NULL)
op_ldap_add(re, errmsg, net, ub) ==
    LET ldmarr == AddLoop(re.re_mods, 1, <<>>)
        sent == [NoArgs EXCEPT !.fn = "ldap_add_s", !.ldmarr = ldmarr]
    IN  IF ldmarr # <<>>
        THEN OpRet(net, errmsg, TRUE, sent, FALSE)
        ELSE OpRet(0, "No modifications to do", FALSE, NoArgs, ub = "crash")

(* ---------------------------- op_ldap_modify -------------------------- *)
ModOp(t) ==
    CASE t = T_MODOPADD -> "LDAP_MOD_ADD|LDAP_MOD_BVALUES"
      [] t = T_MODOPREPLACE -> "LDAP_MOD_REPLACE|LDAP_MOD_BVALUES"
      [] t = T_MODOPDELETE -> "LDAP_MOD_DELETE|LDAP_MOD_BVALUES"

\* locals of op_ldap_modify before the loop; ldm is ldmarr[nops] once a
\* group has been allocated and uninitialized while nops = 0
ModifyStart ==
    [state |-> AWAITING_OP, nvals |-> 0, nops |-> 0, ldmarr |-> <<>>,
     crash |-> FALSE]

\* AppendValue putting the new value in front of the ones already there
AppendValue_Prepend(bvalues, nvals, i) == <<i>> \o SubSeq(bvalues, 1, nvals)

\* append the value of item i at mod_bvalues[nvals], NULL after it
AppendValue(bvalues, nvals, i) == SubSeq(bvalues, 1, nvals) \o <<i>>

\* ModifyIter storing every plain line in the open group whatever its tag
ModifyIter_NoTagCheck(s, mi, i, ub) ==
    LET type == mi[i].mi_type
        value == mi[i].mi_val
        t == getmodtype(type)
    IN  IF t = T_MODSEP THEN [s EXCEPT !.state = T_MODSEP]
        ELSE IF t \in {T_MODOPADD, T_MODOPREPLACE, T_MODOPDELETE}
        THEN [s EXCEPT !.state = t,
                       !.ldmarr = Append(@, [alloc_ldapmod EXCEPT
                                                !.mod_op = ModOp(t),
                                                !.mod_type = value]),
                       !.nvals = 0,
                       !.nops = @ + 1]
        ELSE IF s.state = AWAITING_OP THEN s
        ELSE IF s.nops = 0
        THEN IF ub = "crash" THEN [s EXCEPT !.crash = TRUE] ELSE s
        ELSE [s EXCEPT !.ldmarr[s.nops].mod_bvalues = AppendValue(@, s.nvals, i),
                       !.nvals = @ + 1]

\* one iteration of the for loop, on item i
ModifyIter(s, mi, i, ub) ==
    LET type == mi[i].mi_type
        value == mi[i].mi_val
        t == getmodtype(type)
    IN  IF t = T_MODSEP THEN [s EXCEPT !.state = T_MODSEP]
        ELSE IF t \in {T_MODOPADD, T_MODOPREPLACE, T_MODOPDELETE}
        THEN [s EXCEPT !.state = t,
                       !.ldmarr = Append(@, [alloc_ldapmod EXCEPT
                                                !.mod_op = ModOp(t),
                                                !.mod_type = value]),
                       !.nvals = 0,
                       !.nops = @ + 1]
        ELSE IF s.state = AWAITING_OP THEN s
        ELSE IF s.nops = 0
        THEN \* strcasecmp reads through the uninitialized ldm
             IF ub = "crash" THEN [s EXCEPT !.crash = TRUE] ELSE s
        ELSE IF StrCaseCmp(type, s.ldmarr[s.nops].mod_type) # 0 THEN s
        ELSE [s EXCEPT !.ldmarr[s.nops].mod_bvalues = AppendValue(@, s.nvals, i),
                       !.nvals = @ + 1]

RECURSIVE ModifyLoop(_, _, _, _)
ModifyLoop(s, mi, i, ub) ==
    IF i > Len(mi) \/ s.crash THEN s
    ELSE ModifyLoop(ModifyIter(s, mi, i, ub), mi, i + 1, ub)

\* after the loop: ldmarr[nops] = NULL, the protocol call, free_ldmarr
ModifyFinish(s, errmsg, net, ub) ==
    LET sent == [NoArgs EXCEPT !.fn = "ldap_modify_s", !.ldmarr = s.ldmarr]
    IN  IF s.crash THEN OpRet(0, errmsg, FALSE, NoArgs, TRUE)
        ELSE IF s.nops > 0 THEN OpRet(net, errmsg, TRUE, sent, FALSE)
        ELSE \* ldmarr is NULL: the store and free_ldmarr go through NULL
             OpRet(0, errmsg, FALSE, NoArgs, ub = "crash")

op_ldap_modify(re, errmsg, net, ub) ==
    IF re.re_mods_null THEN OpRet(-1, "No arguments given", FALSE, NoArgs, FALSE)
    ELSE ModifyFinish(ModifyLoop(ModifyStart, re.re_mods, 1, ub), errmsg, net, ub)

(* ---------------------------- op_ldap_delete -------------------------- *)
op_ldap_delete(re, errmsg, net, ub) ==
    OpRet(net, errmsg, TRUE, [NoArgs EXCEPT !.fn = "ldap_delete_s"], FALSE)

(* ---------------------------- op_ldap_modrdn -------------------------- *)
GOT_NEWRDN == 1
GOT_DRDNFLAGSTR == 2

\* a | b on two-bit values
BitOr(a, b) ==
    (IF a % 2 = 1 \/ b % 2 = 1 THEN 1 ELSE 0)
    + (IF a \div 2 = 1 \/ b \div 2 = 1 THEN 2 ELSE 0)

GOT_ALLNEWRDNFLAGS == BitOr(GOT_NEWRDN, GOT_DRDNFLAGSTR)

ModrdnStart == [state |-> 0, drdnflag |-> -1, err |-> NULL]

\* ModrdnIter taking every deleteoldrdn value other than "0" as "1"
ModrdnIter_AnyFlag(s, mi, i) ==
    IF StrCmp(mi[i].mi_type, T_NEWRDNSTR) = 0
    THEN [s EXCEPT !.state = BitOr(@, GOT_NEWRDN)]
    ELSE IF StrCmp(mi[i].mi_type, T_DRDNFLAGSTR) = 0
    THEN IF StrCmp(mi[i].mi_val, "0") = 0
         THEN [s EXCEPT !.state = BitOr(@, GOT_DRDNFLAGSTR), !.drdnflag = 0]
         ELSE [s EXCEPT !.state = BitOr(@, GOT_DRDNFLAGSTR), !.drdnflag = 1]
    ELSE [s EXCEPT !.err = "Bad value in replication log entry"]

\* one iteration of the argument scan; err is the message of an early return
ModrdnIter(s, mi, i) ==
    IF StrCmp(mi[i].mi_type, T_NEWRDNSTR) = 0
    THEN [s EXCEPT !.state = BitOr(@, GOT_NEWRDN)]
    ELSE IF StrCmp(mi[i].mi_type, T_DRDNFLAGSTR) = 0
    THEN IF StrCmp(mi[i].mi_val, "0") = 0
         THEN [s EXCEPT !.state = BitOr(@, GOT_DRDNFLAGSTR), !.drdnflag = 0]
         ELSE IF StrCmp(mi[i].mi_val, "1") = 0
         THEN [s EXCEPT !.state = BitOr(@, GOT_DRDNFLAGSTR), !.drdnflag = 1]
         ELSE [s EXCEPT !.state = BitOr(@, GOT_DRDNFLAGSTR),
                        !.err = "Incorrect argument to deleteoldrdn"]
    ELSE [s EXCEPT !.err = "Bad value in replication log entry"]

RECURSIVE ModrdnLoop(_, _, _)
ModrdnLoop(s, mi, i) ==
    IF i > Len(mi) \/ s.err # NULL THEN s
    ELSE ModrdnLoop(ModrdnIter(s, mi, i), mi, i + 1)

\* the rename call is given mi->mi_val, the value of the first item
op_ldap_modrdn(re, errmsg, net, ub) ==
    IF re.re_mods_null THEN OpRet(-1, "No arguments given", FALSE, NoArgs, FALSE)
    ELSE LET s == ModrdnLoop(ModrdnStart, re.re_mods, 1)
             sent == [NoArgs EXCEPT !.fn = "ldap_modrdn2_s", !.newrdn = 1,
                                    !.drdnflag = s.drdnflag]
         IN  IF s.err # NULL THEN OpRet(-1, s.err, FALSE, NoArgs, FALSE)
             ELSE IF s.state # GOT_ALLNEWRDNFLAGS
             THEN OpRet(-1,
                        "Missing argument: requires \"newrdn\" and \"deleteoldrdn\"",
                        FALSE, NoArgs, FALSE)
             ELSE OpRet(net, errmsg, TRUE, sent, FALSE)


(* ------------------------- connection handles ------------------------- *)
\* LDAP *: ld_id names the connection, binds counts the bind requests sent
\* on it, bound says the last of them succeeded, down says a call on it has
\* reported LDAP_SERVER_DOWN
NullLdp ==
    [ld_null |-> TRUE, ld_id |-> 0, binds |-> 0, bound |-> FALSE, down |-> FALSE]

\* the handle ldap_open returns when it succeeds, n connections opened so far
ldap_open(n) == [NullLdp EXCEPT !.ld_null = FALSE, !.ld_id = n + 1]

\* the handle after a bind request that returned rc
AfterBind(ldp, rc) ==
    [ldp EXCEPT !.binds = @ + 1, !.bound = (rc = LDAP_SUCCESS),
                !.down = (@ \/ rc = LDAP_SERVER_DOWN)]

\* the handle after any other request that returned rc
AfterCall(ldp, rc) == [ldp EXCEPT !.down = (@ \/ rc = LDAP_SERVER_DOWN)]

\* one call into the protocol or ticket library: arg is the connection id
\* (or the candidate's position for the ticket calls)
Call(fn, arg, rc) == [fn |-> fn, arg |-> arg, rc |-> rc]

\* what ldap_unbind can return
UnbindRcs == {LDAP_SUCCESS, LDAP_SERVER_DOWN}

(* ------------------------------ do_unbind ----------------------------- *)
\* do_unbind keeping the handle when ldap_unbind reports an error
do_unbind_KeepOnError(ri, urc) ==
    IF ~ri.ri_ldp.ld_null
    THEN [ri |-> IF urc = LDAP_SUCCESS THEN [ri EXCEPT !.ri_ldp = NullLdp] ELSE ri,
          rc |-> urc,
          calls |-> <<Call("ldap_unbind", ri.ri_ldp.ld_id, urc)>>]
    ELSE [ri |-> ri, rc |-> LDAP_SUCCESS, calls |-> <<>>]

\* urc: what ldap_unbind returns if it is called
do_unbind(ri, urc) ==
    IF ~ri.ri_ldp.ld_null
    THEN [ri |-> [ri EXCEPT !.ri_ldp = NullLdp], rc |-> urc,
          calls |-> <<Call("ldap_unbind", ri.ri_ldp.ld_id, urc)>>]
    ELSE [ri |-> ri, rc |-> LDAP_SUCCESS, calls |-> <<>>]

(* ---------------------------- read_krbnames --------------------------- *)
\* kerberosName values the directory may hold; "???" is one kname_parse rejects
KrbNameValues == {"p1", "p2", "???"}
kname_parse(n) == n # "???"

\* ri_principal after ldap_value_free has freed the string it points to
DANGLING == "DANGLING"

KrbRet(ldp, isnull, names, calls) ==
    [ldp |-> ldp, isnull |-> isnull, names |-> names, calls |-> calls]

\* every way read_krbnames can end on handle ldp
read_krbnames(ldp) ==
    LET id == ldp.ld_id
        bindc(r) == <<Call("ldap_simple_bind_s", id, r)>>
        srchc(r, q) == bindc(r) \o <<Call("ldap_search_st", id, q)>>
        cntc(r, q, ne) == srchc(r, q) \o <<Call("ldap_count_entries", id, ne)>>
        okc == cntc(0, 0, 1) \o <<Call("ldap_first_entry", id, 0)>>
        l1 == AfterBind(ldp, LDAP_SUCCESS)
    IN  { KrbRet(AfterBind(ldp, r), TRUE, <<>>, bindc(r)) :
              r \in NetRcs \ {LDAP_SUCCESS} }
        \cup { KrbRet(AfterCall(l1, q), TRUE, <<>>, srchc(0, q)) :
              q \in NetRcs \ {LDAP_SUCCESS} }
        \cup { KrbRet(l1, TRUE, <<>>, cntc(0, 0, ne)) : ne \in {0, 2} }
        \cup { KrbRet(l1, TRUE, <<>>, cntc(0, 0, 1) \o <<Call("ldap_first_entry", id, -1)>>) }
        \cup { KrbRet(l1, TRUE, <<>>, okc \o <<Call("ldap_get_values", id, -1)>>) }
        \cup { KrbRet(l1, FALSE, v, okc \o <<Call("ldap_get_values", id, 0)>>) :
              v \in SeqsUpTo(KrbNameValues, MaxNames) \ {<<>>} }

(* ------------------------------- do_bind ------------------------------ *)
BindRet(ri, rc, lderr, calls, crash) ==
    [ri |-> ri, rc |-> rc, lderr |-> lderr, calls |-> calls, crash |-> crash]

\* position of the first candidate that parses and for which
\* krb_get_svc_in_tkt succeeds (tgt: the principals it succeeds for); 0 if none
RECURSIVE FirstTgt(_, _, _)
FirstTgt(names, tgt, kni) ==
    IF kni > Len(names) THEN 0
    ELSE IF kname_parse(names[kni]) /\ names[kni] \in tgt THEN kni
    ELSE FirstTgt(names, tgt, kni + 1)

\* the ticket calls made for candidates 1..last, in order
RECURSIVE TktCalls(_, _, _, _)
TktCalls(names, tgt, kni, last) ==
    IF kni > last THEN <<>>
    ELSE (IF kname_parse(names[kni])
          THEN <<Call("krb_get_svc_in_tkt", kni, IF names[kni] \in tgt THEN 0 ELSE 1)>>
          ELSE <<>>)
         \o TktCalls(names, tgt, kni + 1, last)

\* kexit: ldap_value_free(krbnames).  When krbnames is the stack array
\* skrbnames (static) this frees the string ri_principal pointed to on entry
\* and then the stack array itself, which is undefined
KExit(ri, static, retval, lderr, calls) ==
    IF ~static THEN { BindRet(ri, retval, lderr, calls, FALSE) }
    ELSE { BindRet(ri, retval, lderr, calls, TRUE),
           BindRet(ri, retval, lderr, calls, FALSE) }

\* the Kerberos case with candidate list names on handle ri.ri_ldp
KrbWithNames(ri, static, names, calls) ==
    LET id == ri.ri_ldp.ld_id
        stale == [ri EXCEPT !.ri_principal = IF static THEN DANGLING ELSE @]
    IN  UNION {
          LET kni == FirstTgt(names, tgt, 1)
              last == IF kni = 0 THEN Len(names) ELSE kni
              c1 == calls \o TktCalls(names, tgt, 1, last)
          IN  IF kni = 0
              THEN KExit(stale, static, BIND_ERR_KERBEROS_FAILED, 0, c1)
              ELSE UNION {
                     KExit([ri EXCEPT !.ri_ldp = AfterBind(@, k),
                                      !.ri_principal = names[kni]],
                           static,
                           IF k # LDAP_SUCCESS THEN BIND_ERR_KERBEROS_FAILED ELSE 0,
                           IF k # LDAP_SUCCESS THEN k ELSE 0,
                           c1 \o <<Call("ldap_kerberos_bind_s", id, k)>>)
                     : k \in NetRcs }
          : tgt \in SUBSET { n \in KrbNameValues : kname_parse(n) } }

\* case AUTH_KERBEROS in a build with KERBEROS defined
KerberosBind(ri, calls) ==
    IF ri.ri_principal = DANGLING
    THEN \* skrbnames[0] points to freed memory
         { BindRet(ri, BIND_ERR_KERBEROS_FAILED, 0, calls, TRUE) }
         \cup UNION { KrbWithNames(ri, TRUE, <<n>>, calls) : n \in KrbNameValues }
    ELSE IF ri.ri_principal # NULL
    THEN KrbWithNames(ri, TRUE, <<ri.ri_principal>>, calls)
    ELSE UNION {
           IF k.isnull
           THEN { BindRet([ri EXCEPT !.ri_ldp = k.ldp], BIND_ERR_KERBEROS_FAILED,
                          0, calls \o k.calls, FALSE) }
           ELSE KrbWithNames([ri EXCEPT !.ri_ldp = k.ldp], FALSE, k.names,
                             calls \o k.calls)
           : k \in read_krbnames(ri.ri_ldp) }

\* case AUTH_SIMPLE
SimpleBind(ri, calls) ==
    { BindRet([ri EXCEPT !.ri_ldp = AfterBind(@, r)],
              IF r # LDAP_SUCCESS THEN BIND_ERR_SIMPLE_FAILED ELSE BIND_OK,
              IF r # LDAP_SUCCESS THEN r ELSE 0,
              calls \o <<Call("ldap_simple_bind_s", ri.ri_ldp.ld_id, r)>>,
              FALSE)
      : r \in NetRcs }

\* the switch on ri_bind_method, ri.ri_ldp freshly opened
BindSwitch(ri, KERBEROS, calls) ==
    IF ri.ri_bind_method = AUTH_KERBEROS
    THEN IF ~KERBEROS
         THEN { BindRet(ri, BIND_ERR_KERBEROS_FAILED, 0, calls, FALSE) }
         ELSE KerberosBind(ri, calls)
    ELSE IF ri.ri_bind_method = AUTH_SIMPLE THEN SimpleBind(ri, calls)
    ELSE { BindRet(ri, BIND_ERR_BAD_ATYPE, 0, calls, FALSE) }

\* ri_ldp = ldap_open(...) and what follows; nopen connections opened so far
BindOpen(ri, nopen, KERBEROS, calls) ==
    { BindRet([ri EXCEPT !.ri_ldp = NullLdp], BIND_ERR_OPEN, 0,
              calls \o <<Call("ldap_open", 0, -1)>>, FALSE) }
    \cup BindSwitch([ri EXCEPT !.ri_ldp = ldap_open(nopen)], KERBEROS,
                    calls \o <<Call("ldap_open", nopen + 1, 0)>>)

\* every way do_bind( ri, &lderr ) can end
do_bind(ri, nopen, KERBEROS) ==
    IF ~ri.ri_ldp.ld_null
    THEN UNION { BindOpen([ri EXCEPT !.ri_ldp = NullLdp], nopen, KERBEROS,
                          <<Call("ldap_unbind", ri.ri_ldp.ld_id, u)>>)
                 : u \in UnbindRcs }
    ELSE BindOpen(ri, nopen, KERBEROS, <<>>)


(* ------------------------------- state -------------------------------- *)
VARIABLES
    ri,        \* the replica: ri_ldp, ri_bind_method, ri_principal
    KERBEROS,  \* whether the build defines KERBEROS
    nopen,     \* connections ldap_open has returned so far
    re,        \* the record of the do_ldap call in progress
    pc,        \* position in do_ldap
    retry,     \* do_ldap's locals
    rc,
    lderr,
    errmsg,    \* *errmsg
    result,    \* do_ldap's return value, NoResult before it returns
    calls,     \* do_bind / do_unbind / protocol operations of this call, in order
               \* (and where the process died, if it did)
    sent       \* arguments of the protocol operations of this call, in order

vars == <<ri, KERBEROS, nopen, re, pc, retry, rc, lderr, errmsg, result, calls, sent>>

NoResult == -1

Ri(method, principal) ==
    [ri_ldp |-> NullLdp, ri_bind_method |-> method, ri_principal |-> principal]

Init ==
    /\ ri \in { Ri(m, NULL) : m \in {AUTH_SIMPLE, AUTH_KERBEROS, AUTH_OTHER} }
             \cup { Ri(AUTH_KERBEROS, "p1") }
    /\ KERBEROS \in BOOLEAN
    /\ nopen = 0
    /\ re = NoRe
    /\ pc = "idle"
    /\ retry = 0
    /\ rc = 0
    /\ lderr = LDAP_SUCCESS
    /\ errmsg = NULL
    /\ result = NoResult
    /\ calls = <<>>
    /\ sent = <<>>

(* ------------------------------- do_ldap ------------------------------ *)
\* the initial value of the retry counter
RetryBudget == 2

\* do_ldap( ri, re, &errmsg ) is entered with record r
DoLdapEnter(r) ==
    /\ pc = "idle"
    /\ nopen + RetryBudget <= MaxOpens
    /\ re' = r
    /\ retry' = RetryBudget
    /\ rc' = 0
    /\ lderr' = LDAP_SUCCESS
    /\ errmsg' = NULL
    /\ result' = NoResult
    /\ calls' = <<>>
    /\ sent' = <<>>
    /\ pc' = "loop"
    /\ UNCHANGED <<ri, KERBEROS, nopen>>

\* return v
Return(v) == result' = v /\ pc' = "done"

\* DoLdapBind going on to the switch whatever do_bind returned
DoLdapBind_IgnoreFailure ==
    /\ pc = "loop"
    /\ retry > 0
    /\ ri.ri_ldp.ld_null
    /\ \E o \in do_bind(ri, nopen, KERBEROS) :
        /\ ~o.crash
        /\ ~o.ri.ri_ldp.ld_null
        /\ ri' = o.ri
        /\ nopen' = o.ri.ri_ldp.ld_id
        /\ rc' = o.rc
        /\ lderr' = o.lderr
        /\ calls' = Append(calls, Call("do_bind", o.ri.ri_ldp.ld_id, o.rc))
        /\ pc' = "dispatch"
    /\ UNCHANGED <<KERBEROS, re, retry, errmsg, sent, result>>

\* while ( retry > 0 ), ri_ldp == NULL: do_bind
DoLdapBind ==
    /\ pc = "loop"
    /\ retry > 0
    /\ ri.ri_ldp.ld_null
    /\ \E o \in do_bind(ri, nopen, KERBEROS) :
        /\ ri' = o.ri
        /\ nopen' = IF o.ri.ri_ldp.ld_null THEN nopen ELSE o.ri.ri_ldp.ld_id
        /\ rc' = o.rc
        /\ lderr' = o.lderr
        /\ calls' = Append(calls, IF o.crash
                                  THEN Call("died in do_bind", o.ri.ri_ldp.ld_id, 0)
                                  ELSE Call("do_bind", o.ri.ri_ldp.ld_id, o.rc))
        /\ IF o.crash THEN pc' = "crashed" /\ UNCHANGED result
           ELSE IF o.rc # BIND_OK THEN Return(DO_LDAP_ERR_RETRYABLE)
           ELSE pc' = "dispatch" /\ UNCHANGED result
    /\ UNCHANGED <<KERBEROS, re, retry, errmsg, sent>>

\* while ( retry > 0 ), ri_ldp != NULL: straight to the switch
DoLdapHaveSession ==
    /\ pc = "loop"
    /\ retry > 0
    /\ ~ri.ri_ldp.ld_null
    /\ pc' = "dispatch"
    /\ UNCHANGED <<ri, KERBEROS, nopen, re, retry, rc, lderr, errmsg, result, calls, sent>>

\* DoLdapExhausted starting over with a fresh retry counter
DoLdapExhausted_Restart ==
    /\ pc = "loop"
    /\ retry <= 0
    /\ retry' = RetryBudget
    /\ UNCHANGED <<ri, KERBEROS, nopen, re, pc, rc, lderr, errmsg, result, calls, sent>>

\* the loop condition fails: return DO_LDAP_ERR_FATAL
DoLdapExhausted ==
    /\ pc = "loop"
    /\ retry <= 0
    /\ Return(DO_LDAP_ERR_FATAL)
    /\ UNCHANGED <<ri, KERBEROS, nopen, re, retry, rc, lderr, errmsg, calls, sent>>

\* the routine the switch on re_changetype calls
OpLdap(r, msg, net, ub) ==
    CASE r.re_changetype = T_ADDCT -> op_ldap_add(r, msg, net, ub)
      [] r.re_changetype = T_MODIFYCT -> op_ldap_modify(r, msg, net, ub)
      [] r.re_changetype = T_DELETECT -> op_ldap_delete(r, msg, net, ub)
      [] r.re_changetype = T_MODRDNCT -> op_ldap_modrdn(r, msg, net, ub)

KnownChangeTypes == {T_ADDCT, T_MODIFYCT, T_DELETECT, T_MODRDNCT}

\* switch ( re->re_changetype ), one of the four cases
DoLdapDispatch ==
    /\ pc = "dispatch"
    /\ re.re_changetype \in KnownChangeTypes
    /\ \E net \in NetRcs, ub \in UBOutcomes :
        LET o == OpLdap(re, errmsg, net, ub)
        IN  /\ lderr' = o.lderr
            /\ errmsg' = o.errmsg
            /\ ri' = IF o.called THEN [ri EXCEPT !.ri_ldp = AfterCall(@, net)] ELSE ri
            /\ calls' = IF o.called
                        THEN Append(calls, Call(o.sent.fn, ri.ri_ldp.ld_id, net))
                        ELSE IF o.crash
                        THEN Append(calls, Call("died in op_ldap", ri.ri_ldp.ld_id, 0))
                        ELSE calls
            /\ sent' = IF o.called THEN Append(sent, o.sent) ELSE sent
            /\ pc' = IF o.crash THEN "crashed" ELSE "analyze"
    /\ UNCHANGED <<KERBEROS, nopen, re, retry, rc, result>>

\* DoLdapBadOp falling out of the switch to the result analysis
DoLdapBadOp_FallThrough ==
    /\ pc = "dispatch"
    /\ re.re_changetype \notin KnownChangeTypes
    /\ pc' = "analyze"
    /\ UNCHANGED <<ri, KERBEROS, nopen, re, retry, rc, lderr, errmsg, result, calls, sent>>

\* switch ( re->re_changetype ), default: return DO_LDAP_ERR_FATAL
DoLdapBadOp ==
    /\ pc = "dispatch"
    /\ re.re_changetype \notin KnownChangeTypes
    /\ Return(DO_LDAP_ERR_FATAL)
    /\ UNCHANGED <<ri, KERBEROS, nopen, re, retry, rc, lderr, errmsg, calls, sent>>

\* lderr == LDAP_SUCCESS: return DO_LDAP_OK
DoLdapSuccess ==
    /\ pc = "analyze"
    /\ lderr = LDAP_SUCCESS
    /\ Return(DO_LDAP_OK)
    /\ UNCHANGED <<ri, KERBEROS, nopen, re, retry, rc, lderr, errmsg, calls, sent>>

\* DoLdapServerDown without the retry--
DoLdapServerDown_NoDecrement ==
    /\ pc = "analyze"
    /\ lderr = LDAP_SERVER_DOWN
    /\ ri' = do_unbind(ri, LDAP_SUCCESS).ri
    /\ calls' = Append(calls, Call("do_unbind", ri.ri_ldp.ld_id, 0))
    /\ pc' = "loop"
    /\ UNCHANGED <<KERBEROS, nopen, re, retry, rc, lderr, errmsg, result, sent>>

\* lderr == LDAP_SERVER_DOWN: do_unbind, retry--, back to the loop test
DoLdapServerDown ==
    /\ pc = "analyze"
    /\ lderr # LDAP_SUCCESS
    /\ lderr = LDAP_SERVER_DOWN
    /\ \E urc \in UnbindRcs :
        LET u == do_unbind(ri, urc)
        IN  /\ ri' = u.ri
            \* (void) do_unbind( ri ): the value is discarded
            /\ calls' = Append(calls, Call("do_unbind", ri.ri_ldp.ld_id, 0))
    /\ retry' = retry - 1
    /\ pc' = "loop"
    /\ UNCHANGED <<KERBEROS, nopen, re, rc, lderr, errmsg, result, sent>>

\* DoLdapOtherError treating the error as retryable by the caller
DoLdapOtherError_Retryable ==
    /\ pc = "analyze"
    /\ lderr # LDAP_SUCCESS
    /\ lderr # LDAP_SERVER_DOWN
    /\ Return(DO_LDAP_ERR_RETRYABLE)
    /\ UNCHANGED <<ri, KERBEROS, nopen, re, retry, rc, lderr, errmsg, calls, sent>>

\* DoLdapOtherError tearing the session down before it returns
DoLdapOtherError_Unbind ==
    /\ pc = "analyze"
    /\ lderr # LDAP_SUCCESS
    /\ lderr # LDAP_SERVER_DOWN
    /\ ri' = do_unbind(ri, LDAP_SUCCESS).ri
    /\ Return(DO_LDAP_ERR_FATAL)
    /\ UNCHANGED <<KERBEROS, nopen, re, retry, rc, lderr, errmsg, calls, sent>>

\* any other lderr: return DO_LDAP_ERR_FATAL
DoLdapOtherError ==
    /\ pc = "analyze"
    /\ lderr # LDAP_SUCCESS
    /\ lderr # LDAP_SERVER_DOWN
    /\ Return(DO_LDAP_ERR_FATAL)
    /\ UNCHANGED <<ri, KERBEROS, nopen, re, retry, rc, lderr, errmsg, calls, sent>>

\* the caller has the result; do_ldap's frame is gone
DoLdapLeave ==
    /\ pc = "done"
    /\ pc' = "idle"
    /\ re' = NoRe
    /\ retry' = 0
    /\ rc' = 0
    /\ lderr' = LDAP_SUCCESS
    /\ errmsg' = NULL
    /\ result' = NoResult
    /\ calls' = <<>>
    /\ sent' = <<>>
    /\ UNCHANGED <<ri, KERBEROS, nopen>>

Next ==
    \/ \E r \in Records : DoLdapEnter(r)
    \/ DoLdapBind
    \/ DoLdapHaveSession
    \/ DoLdapExhausted
    \/ DoLdapDispatch
    \/ DoLdapBadOp
    \/ DoLdapSuccess
    \/ DoLdapServerDown
    \/ DoLdapOtherError
    \/ DoLdapLeave

Spec == Init /\ [][Next]_vars

(* ------------- the engine with every call run to its end -------------- *)
\* one step of a do_ldap call in progress
DoLdapStep ==
    \/ DoLdapBind
    \/ DoLdapHaveSession
    \/ DoLdapExhausted
    \/ DoLdapDispatch
    \/ DoLdapBadOp
    \/ DoLdapSuccess
    \/ DoLdapServerDown
    \/ DoLdapOtherError

\* a target that binds with a password
InitLive ==
    /\ Init
    /\ ri = Ri(AUTH_SIMPLE, NULL)
    /\ KERBEROS = FALSE

\* every library call returns and do_ldap is not suspended for ever
SpecLive == InitLive /\ [][Next]_vars /\ WF_vars(DoLdapStep)

(* --------- the engine fed modify records only, simple bind ------------ *)
InitModify ==
    /\ Init
    /\ ri = Ri(AUTH_SIMPLE, NULL)
    /\ KERBEROS = FALSE

NextModify ==
    \/ \E r \in ModifyRecords : DoLdapEnter(r)
    \/ DoLdapBind
    \/ DoLdapHaveSession
    \/ DoLdapExhausted
    \/ DoLdapDispatch
    \/ DoLdapSuccess
    \/ DoLdapServerDown
    \/ DoLdapOtherError
    \/ DoLdapLeave

SpecModify == InitModify /\ [][NextModify]_vars

(* ------- the session routines on their own: do_bind and do_unbind ----- *)
\* Here pc is the routine that returned last ("idle" before the first),
\* rc its return value, lderr what do_bind left in *lderr, retry the number
\* of do_bind calls so far, and calls the library calls made since the last
\* do_bind was entered, each routine's return recorded after its own calls.

\* do_bind( ri, &lderr ) is called and runs to its return (or to its death)
DoBind ==
    /\ pc \in {"idle", "do_bind", "do_unbind"}
    /\ retry < MaxBinds
    /\ \E o \in do_bind(ri, nopen, KERBEROS) :
        /\ ri' = o.ri
        /\ nopen' = IF o.ri.ri_ldp.ld_null THEN nopen ELSE o.ri.ri_ldp.ld_id
        /\ rc' = o.rc
        /\ lderr' = o.lderr
        /\ calls' = Append(o.calls, IF o.crash
                                    THEN Call("died in do_bind", o.ri.ri_ldp.ld_id, 0)
                                    ELSE Call("do_bind", o.ri.ri_ldp.ld_id, o.rc))
        /\ pc' = IF o.crash THEN "crashed" ELSE "do_bind"
    /\ retry' = retry + 1
    /\ UNCHANGED <<KERBEROS, re, errmsg, result, sent>>

\* do_unbind( ri ) is called and returns
DoUnbind ==
    /\ pc \in {"idle", "do_bind", "do_unbind"}
    /\ Cardinality({ i \in 1..Len(calls) : calls[i].fn = "do_unbind" }) < MaxUnbinds
    /\ \E urc \in UnbindRcs :
        LET u == do_unbind(ri, urc)
        IN  /\ ri' = u.ri
            /\ rc' = u.rc
            /\ calls' = calls \o u.calls \o <<Call("do_unbind", ri.ri_ldp.ld_id, u.rc)>>
    /\ pc' = "do_unbind"
    /\ UNCHANGED <<KERBEROS, nopen, re, retry, lderr, errmsg, result, sent>>

NextSession == DoBind \/ DoUnbind

SpecSession == Init /\ [][NextSession]_vars


(* ====================== properties of the engine ====================== *)
OpFns == {"ldap_add_s", "ldap_modify_s", "ldap_delete_s", "ldap_modrdn2_s"}

IsOp(c) == c.fn \in OpFns

\* the add/modify/delete/rename calls of the do_ldap call in progress
OpCalls == SelectSeq(calls, IsOp)

\* positions in calls of the events named fn
EventsAt(fn) == { i \in 1..Len(calls) : calls[i].fn = fn }

\* position in calls of the first protocol operation, 0 if there is none
FirstOpAt ==
    IF \E i \in 1..Len(calls) : IsOp(calls[i])
    THEN CHOOSE i \in 1..Len(calls) :
            IsOp(calls[i]) /\ \A j \in 1..(i - 1) : ~IsOp(calls[j])
    ELSE 0

\* the first protocol operation of the call reported LDAP_SERVER_DOWN
FirstOpDown == FirstOpAt > 0 /\ calls[FirstOpAt].rc = LDAP_SERVER_DOWN

\* C1 as written: once do_ldap has returned, a first operation that reported
\* LDAP_SERVER_DOWN was followed by an unbind, a rebind and a re-issue of the
\* same operation; success of the second gives DO_LDAP_OK, a second
\* LDAP_SERVER_DOWN gives DO_LDAP_ERR_FATAL with no third operation.
C1_RetryAlwaysReissues ==
    (pc = "done" /\ FirstOpDown) =>
        /\ Len(OpCalls) = 2
        /\ Len(sent) = 2 /\ sent[2] = sent[1]
        /\ (OpCalls[2].rc = LDAP_SUCCESS => result = DO_LDAP_OK)
        /\ (OpCalls[2].rc = LDAP_SERVER_DOWN => result = DO_LDAP_ERR_FATAL)

\* C1 amended: once do_ldap has returned, a first operation that reported
\* LDAP_SERVER_DOWN was followed at once by one do_unbind and one do_bind.  If
\* that do_bind returned BIND_OK the same operation was re-issued exactly once,
\* on the new connection: success gives DO_LDAP_OK with the counter at 1, a
\* second LDAP_SERVER_DOWN gives DO_LDAP_ERR_FATAL with no third operation.
\* If the do_bind failed nothing was re-issued and do_ldap returned
\* DO_LDAP_ERR_RETRYABLE.
C1_RetryOnceAfterRebind ==
    (pc = "done" /\ FirstOpDown) =>
        LET k == FirstOpAt IN
        /\ Len(calls) >= k + 2
        /\ calls[k + 1].fn = "do_unbind" /\ calls[k + 1].arg = calls[k].arg
        /\ calls[k + 2].fn = "do_bind"
        /\ Len(OpCalls) <= 2
        /\ IF calls[k + 2].rc = BIND_OK
           THEN /\ Len(OpCalls) = 2
                /\ calls[k + 3] = OpCalls[2]
                /\ OpCalls[2].fn = OpCalls[1].fn
                /\ OpCalls[2].arg = calls[k + 2].arg
                /\ OpCalls[2].arg # OpCalls[1].arg
                /\ Len(sent) = 2 /\ sent[2] = sent[1]
                /\ (OpCalls[2].rc = LDAP_SUCCESS =>
                        result = DO_LDAP_OK /\ retry = 1)
                /\ (OpCalls[2].rc = LDAP_SERVER_DOWN =>
                        result = DO_LDAP_ERR_FATAL /\ retry = 0)
           ELSE /\ Len(OpCalls) = 1
                /\ Len(calls) = k + 2
                /\ result = DO_LDAP_ERR_RETRYABLE

\* a call whose first operation found the server down and whose second succeeded
C1_Witness ==
    /\ pc = "done"
    /\ FirstOpDown
    /\ Len(OpCalls) = 2
    /\ OpCalls[2].rc = LDAP_SUCCESS
    /\ result = DO_LDAP_OK

\* C2: a do_bind that returns anything but BIND_OK is the last thing the
\* do_ldap call does: do_ldap returns DO_LDAP_ERR_RETRYABLE at once, no
\* add/modify/delete/rename follows it, whatever the retry counter holds.
C2_BindFailureIsRetryable ==
    \A i \in EventsAt("do_bind") :
        calls[i].rc # BIND_OK =>
            /\ i = Len(calls)
            /\ pc = "done"
            /\ result = DO_LDAP_ERR_RETRYABLE

\* the rebind after a mid-operation teardown failed, one retry still left
C2_Witness ==
    /\ pc = "done"
    /\ result = DO_LDAP_ERR_RETRYABLE
    /\ retry = 1
    /\ Len(OpCalls) = 1
    /\ calls[Len(calls)].fn = "do_bind"
    /\ calls[Len(calls)].rc # BIND_OK

\* C3 as written: outside do_bind, a non-NULL ri_ldp is a handle whose most
\* recent bind succeeded.
C3_SessionOnlyAfterSuccessfulBind ==
    ~ri.ri_ldp.ld_null => ri.ri_ldp.bound

\* C4: once do_ldap has returned after at least one protocol operation, the
\* last operation's result decides: success gives DO_LDAP_OK; an error other
\* than LDAP_SERVER_DOWN gives DO_LDAP_ERR_FATAL, and that operation is the
\* last thing the call did (no unbind, no bind, no further operation).
C4_ResultMapping ==
    (pc = "done" /\ Len(OpCalls) > 0) =>
        LET last == OpCalls[Len(OpCalls)] IN
        /\ (last.rc = LDAP_SUCCESS => result = DO_LDAP_OK)
        /\ (last.rc \notin {LDAP_SUCCESS, LDAP_SERVER_DOWN} =>
                /\ result = DO_LDAP_ERR_FATAL
                /\ calls[Len(calls)] = last
                /\ (Len(OpCalls) = 2 => OpCalls[1].rc = LDAP_SERVER_DOWN))
        /\ (result = DO_LDAP_OK => last.rc = LDAP_SUCCESS)

\* a rename that the server refused with an error other than LDAP_SERVER_DOWN
C4_Witness ==
    /\ pc = "done"
    /\ result = DO_LDAP_ERR_FATAL
    /\ Len(OpCalls) = 1
    /\ OpCalls[1].fn = "ldap_modrdn2_s"
    /\ OpCalls[1].rc = LDAP_NO_SUCH_OBJECT

\* the messages op_ldap_modify and op_ldap_modrdn give for a malformed record
MalformedMsgs ==
    { "No arguments given", "Incorrect argument to deleteoldrdn",
      "Bad value in replication log entry",
      "Missing argument: requires \"newrdn\" and \"deleteoldrdn\"" }

\* C5: a do_ldap call that ends on a malformed record, an unknown change type
\* or a protocol error other than LDAP_SERVER_DOWN returns DO_LDAP_ERR_FATAL
\* with the session in place: ri_ldp is not NULL, it is the handle of the
\* call's last bind or operation, no do_unbind followed that, and a call
\* that made no protocol operation made no do_unbind at all.
C5_ErrorKeepsSession ==
    (pc = "done" /\ ( \/ errmsg \in MalformedMsgs
                      \/ (result = DO_LDAP_ERR_FATAL /\ lderr # LDAP_SERVER_DOWN) )) =>
        /\ result = DO_LDAP_ERR_FATAL
        /\ ~ri.ri_ldp.ld_null
        /\ (Len(calls) > 0 =>
                /\ calls[Len(calls)].fn \in OpFns \cup {"do_bind"}
                /\ calls[Len(calls)].arg = ri.ri_ldp.ld_id)
        /\ (OpCalls = <<>> => EventsAt("do_unbind") = {})

\* a rename record without deleteoldrdn was rejected and the session is kept
C5_Witness ==
    /\ pc = "done"
    /\ result = DO_LDAP_ERR_FATAL
    /\ re.re_changetype = T_MODRDNCT
    /\ errmsg = "Missing argument: requires \"newrdn\" and \"deleteoldrdn\""
    /\ ~ri.ri_ldp.ld_null
    /\ ri.ri_ldp.bound


(* ================= properties of the record handling ================== *)
\* the do_ldap call got as far as the switch and is over: it returned
\* something other than the bind failure code, or the process died in op_ldap_*
Applied ==
    \/ pc = "done" /\ result # DO_LDAP_ERR_RETRYABLE
    \/ pc = "crashed" /\ calls[Len(calls)].fn = "died in op_ldap"

\* the do_ldap call got as far as the switch and has returned
Returned == pc = "done" /\ result # DO_LDAP_ERR_RETRYABLE

\* the record was rejected: do_ldap returned DO_LDAP_ERR_FATAL
Rejected == pc = "done" /\ result = DO_LDAP_ERR_FATAL

IsModify(r) == r.re_changetype = T_MODIFYCT /\ ~r.re_mods_null

IsOperatorLine(m) ==
    getmodtype(m.mi_type) \in {T_MODOPADD, T_MODOPREPLACE, T_MODOPDELETE}

IsPlainLine(m) == getmodtype(m.mi_type) = T_ERR

IsSeparatorLine(m) == getmodtype(m.mi_type) = T_MODSEP

\* C6 as written: an add record with an empty ModItem list issues no protocol
\* operation, and once past the bind the call ends with do_ldap returning
\* DO_LDAP_ERR_FATAL and the message "No modifications to do".
C6_EmptyAddIsFatal ==
    (re.re_changetype = T_ADDCT /\ ~re.re_mods_null /\ re.re_mods = <<>>) =>
        /\ OpCalls = <<>>
        /\ (Applied => Rejected /\ errmsg = "No modifications to do")

\* some plain attribute line comes before every operator line
PlainBeforeOperator(mi) ==
    \E i \in 1..Len(mi) :
        IsPlainLine(mi[i]) /\ \A j \in 1..(i - 1) : ~IsOperatorLine(mi[j])

\* C7 as written: a modify record with a plain attribute line before any
\* operator line is rejected: ldap_modify_s is never called for it, and what
\* do_ldap returns once it is past the bind is DO_LDAP_ERR_FATAL.
C7_PlainBeforeOperatorIsFatal ==
    (IsModify(re) /\ PlainBeforeOperator(re.re_mods)) =>
        /\ OpCalls = <<>>
        /\ (Returned => Rejected)

\* some plain attribute line directly under an operator line (only plain
\* lines between them) carries a tag other than the operator line's value
MismatchInGroup(mi) ==
    \E j \in 1..Len(mi), i \in 1..Len(mi) :
        /\ j < i
        /\ IsOperatorLine(mi[j])
        /\ \A k \in (j + 1)..i : IsPlainLine(mi[k])
        /\ StrCaseCmp(mi[i].mi_type, mi[j].mi_val) # 0

\* C8 as written: a modify record with a mismatched attribute tag inside an
\* open group is rejected: ldap_modify_s is never called for it, and what
\* do_ldap returns once it is past the bind is DO_LDAP_ERR_FATAL.
C8_MismatchedTagIsFatal ==
    (IsModify(re) /\ MismatchInGroup(re.re_mods)) =>
        /\ OpCalls = <<>>
        /\ (Returned => Rejected)

\* the record has no operator line and no plain line: empty, or separators only
ZeroGroups(mi) == \A i \in 1..Len(mi) : IsSeparatorLine(mi[i])

\* C9 as written: a modify record that produces zero groups issues no
\* ldap_modify_s, and once past the bind the call ends with do_ldap
\* returning DO_LDAP_ERR_FATAL.
C9_ZeroGroupsIsFatal ==
    (IsModify(re) /\ ZeroGroups(re.re_mods)) =>
        /\ OpCalls = <<>>
        /\ (Applied => Rejected)

\* positions of the operator lines of a record, in order
RECURSIVE OperatorLines(_, _)
OperatorLines(mi, i) ==
    IF i > Len(mi) THEN <<>>
    ELSE (IF IsOperatorLine(mi[i]) THEN <<i>> ELSE <<>>) \o OperatorLines(mi, i + 1)

\* the operator an operator line names
OperatorOf(m) ==
    CASE m.mi_type = "add" -> "LDAP_MOD_ADD|LDAP_MOD_BVALUES"
      [] m.mi_type = "replace" -> "LDAP_MOD_REPLACE|LDAP_MOD_BVALUES"
      [] m.mi_type = "delete" -> "LDAP_MOD_DELETE|LDAP_MOD_BVALUES"

\* ldmarr has one group per operator line of mi, in the order of those lines,
\* each with that line's operator and value, and each group's values point
\* into items of increasing position
GroupsFollowRecord(mi, ldmarr) ==
    LET ops == OperatorLines(mi, 1) IN
    /\ Len(ldmarr) = Len(ops)
    /\ \A k \in 1..Len(ldmarr) :
        /\ ldmarr[k].mod_op = OperatorOf(mi[ops[k]])
        /\ ldmarr[k].mod_type = mi[ops[k]].mi_val
        /\ \A a \in 1..Len(ldmarr[k].mod_bvalues) :
            /\ ldmarr[k].mod_bvalues[a] \in 1..Len(mi)
            /\ IsPlainLine(mi[ldmarr[k].mod_bvalues[a]])
            /\ \A b \in 1..(a - 1) :
                ldmarr[k].mod_bvalues[b] < ldmarr[k].mod_bvalues[a]

\* C10: whenever ldap_modify_s is called, the groups it is given follow the
\* record: one group per operator line, in the order of the operator lines,
\* with that line's operator and its value as attribute type, and each
\* group's values in ModItem order.
C10_GroupsInRecordOrder ==
    \A k \in 1..Len(sent) :
        sent[k].fn = "ldap_modify_s" => GroupsFollowRecord(re.re_mods, sent[k].ldmarr)

\* ldap_modify_s was given a group holding two values
C10_Witness ==
    /\ Len(sent) > 0
    /\ sent[1].fn = "ldap_modify_s"
    /\ \E k \in 1..Len(sent[1].ldmarr) : Len(sent[1].ldmarr[k].mod_bvalues) = 2

(* ===================== properties of rename records =================== *)
IsRename(r) == r.re_changetype = T_MODRDNCT /\ ~r.re_mods_null

\* the record has a newrdn item, a deleteoldrdn item, every deleteoldrdn
\* value is "0" or "1", and there is no other tag
WellFormedRename(mi) ==
    /\ \E i \in 1..Len(mi) : mi[i].mi_type = T_NEWRDNSTR
    /\ \E i \in 1..Len(mi) : mi[i].mi_type = T_DRDNFLAGSTR
    /\ \A i \in 1..Len(mi) :
        \/ mi[i].mi_type = T_NEWRDNSTR
        \/ mi[i].mi_type = T_DRDNFLAGSTR /\ mi[i].mi_val \in {"0", "1"}

\* C11 as written: for a rename record made of a newrdn item and a
\* deleteoldrdn item with value "0" or "1", in either order, a do_ldap call
\* that gets past the bind calls ldap_modrdn2_s, and every ldap_modrdn2_s
\* call is given the value of a newrdn item as new RDN and the value of a
\* deleteoldrdn item as flag.
C11_RenameArgsEitherOrder ==
    (IsRename(re) /\ WellFormedRename(re.re_mods)) =>
        /\ (Returned => sent # <<>>)
        /\ \A k \in 1..Len(sent) :
            /\ sent[k].fn = "ldap_modrdn2_s"
            /\ \E i \in 1..Len(re.re_mods) :
                /\ re.re_mods[i].mi_type = T_NEWRDNSTR
                /\ re.re_mods[sent[k].newrdn].mi_val = re.re_mods[i].mi_val
            /\ \E i \in 1..Len(re.re_mods) :
                /\ re.re_mods[i].mi_type = T_DRDNFLAGSTR
                /\ sent[k].drdnflag = (IF re.re_mods[i].mi_val = "0" THEN 0 ELSE 1)

\* the rename record lacks newrdn or deleteoldrdn, or has a deleteoldrdn value
\* other than "0" and "1", or has another tag (a NULL item list lacks both)
MalformedRename(r) ==
    /\ r.re_changetype = T_MODRDNCT
    /\ (r.re_mods_null \/ ~WellFormedRename(r.re_mods))

\* C12 as written: for a malformed rename record ldap_modrdn2_s is never
\* called, nothing is retried, and do_ldap returns DO_LDAP_ERR_FATAL with an
\* error message set.
C12_MalformedRenameIsFatal ==
    MalformedRename(re) =>
        /\ OpCalls = <<>>
        /\ EventsAt("do_unbind") = {}
        /\ (pc = "done" => result = DO_LDAP_ERR_FATAL /\ errmsg \in MalformedMsgs)

\* C12 amended: for a malformed rename record ldap_modrdn2_s is never called
\* and nothing is retried (no do_unbind, at most one do_bind, the retry
\* counter untouched).  When the call has a session (one was there or its
\* do_bind returned BIND_OK) do_ldap returns DO_LDAP_ERR_FATAL with one of
\* op_ldap_modrdn's messages in *errmsg; when its do_bind fails do_ldap
\* returns DO_LDAP_ERR_RETRYABLE and *errmsg is left alone.
C12_MalformedRenameRejected ==
    MalformedRename(re) =>
        /\ OpCalls = <<>> /\ sent = <<>>
        /\ EventsAt("do_unbind") = {}
        /\ Cardinality(EventsAt("do_bind")) <= 1
        /\ retry = RetryBudget
        /\ (pc = "done" =>
              IF \E i \in EventsAt("do_bind") : calls[i].rc # BIND_OK
              THEN result = DO_LDAP_ERR_RETRYABLE /\ errmsg = NULL
              ELSE result = DO_LDAP_ERR_FATAL /\ errmsg \in MalformedMsgs)

\* a rename record with deleteoldrdn: 2 was rejected for that value
C12_Witness ==
    /\ pc = "done"
    /\ MalformedRename(re)
    /\ \E i \in 1..Len(re.re_mods) : re.re_mods[i] = Mi(T_NEWRDNSTR, "cn=New")
    /\ \E i \in 1..Len(re.re_mods) : re.re_mods[i] = Mi(T_DRDNFLAGSTR, "2")
    /\ result = DO_LDAP_ERR_FATAL
    /\ errmsg = "Incorrect argument to deleteoldrdn"
    /\ OpCalls = <<>>

(* ================= properties of do_bind and do_unbind ================ *)
\* C13: every do_unbind call on a target without a session makes no library
\* call, leaves the target as it is and returns LDAP_SUCCESS; every do_unbind
\* call on a target with a session makes exactly one ldap_unbind call, on
\* that session, returns what ldap_unbind returned, and leaves ri_ldp NULL
\* (and the rest of the target alone) whatever ldap_unbind returned.
C13_DoUnbindIdempotent ==
    [][ pc' = "do_unbind" =>
          IF ri.ri_ldp.ld_null
          THEN /\ ri' = ri
               /\ rc' = LDAP_SUCCESS
               /\ calls' = Append(calls, Call("do_unbind", 0, LDAP_SUCCESS))
          ELSE /\ ri' = [ri EXCEPT !.ri_ldp = NullLdp]
               /\ Len(calls') = Len(calls) + 2
               /\ calls'[Len(calls) + 1] =
                      Call("ldap_unbind", ri.ri_ldp.ld_id, rc')
               /\ calls'[Len(calls) + 2] = Call("do_unbind", ri.ri_ldp.ld_id, rc')
               /\ SubSeq(calls', 1, Len(calls)) = calls
               /\ rc' \in UnbindRcs
    ]_vars

\* a do_unbind whose ldap_unbind reported an error was followed by a second
\* do_unbind, which found no session and made no library call
C13_Witness ==
    /\ pc = "do_unbind"
    /\ ri.ri_ldp.ld_null
    /\ rc = LDAP_SUCCESS
    /\ Len(calls) >= 3
    /\ calls[Len(calls) - 2].fn = "ldap_unbind"
    /\ calls[Len(calls) - 2].rc = LDAP_SERVER_DOWN
    /\ calls[Len(calls) - 1] = Call("do_unbind", calls[Len(calls) - 2].arg, LDAP_SERVER_DOWN)
    /\ calls[Len(calls)] = Call("do_unbind", 0, LDAP_SUCCESS)

\* the library calls of the do_bind that returned last
BindCalls == SelectSeq(calls, LAMBDA c : c.fn \notin {"do_bind", "do_unbind", "died in do_bind"})

\* the target's bind method cannot be served by this build
ConfigError ==
    \/ ri.ri_bind_method \notin {AUTH_SIMPLE, AUTH_KERBEROS}
    \/ ri.ri_bind_method = AUTH_KERBEROS /\ ~KERBEROS

BindFns == {"ldap_simple_bind_s", "ldap_kerberos_bind_s"}

\* C14 as written: when the bind method is unknown, or is Kerberos in a build
\* without it, a do_bind that has returned has failed, has made no ldap_open
\* and no bind call, and has left ri_ldp NULL.
C14_ConfigErrorMakesNoNetworkCall ==
    (pc = "do_bind" /\ ConfigError) =>
        /\ rc # BIND_OK
        /\ \A i \in 1..Len(BindCalls) : BindCalls[i].fn \notin BindFns \cup {"ldap_open"}
        /\ ri.ri_ldp.ld_null

\* C15 as written: a do_ldap call on a target whose bind method is unknown,
\* or is Kerberos in a build without it, returns DO_LDAP_ERR_FATAL (calls in
\* which ldap_open itself failed are left aside).
C15_ConfigErrorIsFatal ==
    (/\ pc = "done"
     /\ ConfigError
     /\ \A i \in EventsAt("do_bind") : calls[i].rc # BIND_ERR_OPEN) =>
        result = DO_LDAP_ERR_FATAL

\* C16 as written: no connection receives two bind calls: the handle in
\* ri_ldp has had at most one, and among the library calls since do_bind
\* was entered no two bind calls name the same connection.
C16_NoHandleBoundTwice ==
    /\ ri.ri_ldp.binds <= 1
    /\ \A i, j \in 1..Len(calls) :
        (/\ i < j
         /\ calls[i].fn \in BindFns
         /\ calls[j].fn \in BindFns) => calls[i].arg # calls[j].arg

\* the calls named fn among cs, in order
CallsOf(cs, fn) == SelectSeq(cs, LAMBDA c : c.fn = fn)

\* the principals kname_parse accepts
Principals == { n \in KrbNameValues : kname_parse(n) }

\* C17 as written, for every do_bind call with ri_bind_method AUTH_KERBEROS in
\* a build with KERBEROS: do_bind returns; its krb_get_svc_in_tkt calls go
\* through the candidates in order and stop at the first success; the
\* ticket bind is sent exactly when one succeeded, otherwise do_bind returns
\* BIND_ERR_KERBEROS_FAILED; the candidate that succeeded is the principal
\* remembered in ri_principal afterwards; and a principal remembered on
\* entry is the one tried (no name lookup is made) and is still remembered
\* after the call.
C17_TicketCandidateFallback ==
    [][ (retry' = retry + 1 /\ KERBEROS /\ ri.ri_bind_method = AUTH_KERBEROS
         /\ CallsOf(calls', "ldap_open") # <<>>
         /\ CallsOf(calls', "ldap_open")[1].rc = 0) =>
          LET tkt == CallsOf(calls', "krb_get_svc_in_tkt")
              kb == CallsOf(calls', "ldap_kerberos_bind_s")
              got == \E i \in 1..Len(tkt) : tkt[i].rc = 0
          IN  /\ pc' = "do_bind"
              /\ \A i, j \in 1..Len(tkt) : i < j => tkt[i].arg < tkt[j].arg
              /\ \A i \in 1..Len(tkt) : tkt[i].rc = 0 => i = Len(tkt)
              /\ Len(kb) = (IF got THEN 1 ELSE 0)
              /\ (~got => rc' = BIND_ERR_KERBEROS_FAILED)
              /\ (got => ri'.ri_principal \in Principals)
              /\ (ri.ri_principal # NULL =>
                    /\ CallsOf(calls', "ldap_search_st") = <<>>
                    /\ ri.ri_principal \in Principals
                    /\ Len(tkt) = 1
                    /\ ri'.ri_principal = ri.ri_principal)
    ]_vars

(* ================ more properties of the engine ======================= *)
\* a do_ldap call is in progress on a record whose change type is none of
\* add, modify, delete, rename
BadChangeType == pc # "idle" /\ re.re_changetype \notin KnownChangeTypes

\* C18 as written: for a record with an unknown change type no
\* add/modify/delete/rename is issued and do_ldap returns DO_LDAP_ERR_FATAL.
C18_BadChangeTypeIsFatal ==
    BadChangeType =>
        /\ OpCalls = <<>>
        /\ (pc = "done" => result = DO_LDAP_ERR_FATAL)

\* C18 amended: for a record with an unknown change type no
\* add/modify/delete/rename is issued, nothing is retried and *errmsg is left
\* alone.  When the call has a session (one was there or its do_bind
\* returned BIND_OK) do_ldap returns DO_LDAP_ERR_FATAL; when its do_bind
\* fails do_ldap returns DO_LDAP_ERR_RETRYABLE.
C18_BadChangeTypeRejected ==
    BadChangeType =>
        /\ OpCalls = <<>> /\ sent = <<>>
        /\ EventsAt("do_unbind") = {}
        /\ Cardinality(EventsAt("do_bind")) <= 1
        /\ retry = RetryBudget
        /\ errmsg = NULL
        /\ (pc = "done" =>
              IF \E i \in EventsAt("do_bind") : calls[i].rc # BIND_OK
              THEN result = DO_LDAP_ERR_RETRYABLE
              ELSE result = DO_LDAP_ERR_FATAL)

\* a record with an unknown change type was refused after a successful bind
C18_Witness ==
    /\ pc = "done"
    /\ re.re_changetype = T_BADCT
    /\ result = DO_LDAP_ERR_FATAL
    /\ calls = <<Call("do_bind", ri.ri_ldp.ld_id, BIND_OK)>>
    /\ ri.ri_ldp.bound

\* the add/modify/delete/rename calls of this do_ldap call that reported
\* LDAP_SERVER_DOWN
DownOps == { i \in 1..Len(calls) : IsOp(calls[i]) /\ calls[i].rc = LDAP_SERVER_DOWN }

\* within one do_ldap call: at most 2 operations and at most 2 do_bind calls,
\* and the retry counter is 2 less one for every LDAP_SERVER_DOWN result
\* already analysed
RetryAccounting ==
    pc # "idle" =>
        /\ Len(OpCalls) <= 2
        /\ Cardinality(EventsAt("do_bind")) <= 2
        /\ retry \in 0..2
        /\ retry = 2 - Cardinality(DownOps)
                   + (IF pc = "analyze" /\ lderr = LDAP_SERVER_DOWN THEN 1 ELSE 0)

\* a step of a do_ldap call that changes the retry counter
RetryStep == pc # "idle" /\ pc' # "idle" /\ retry' # retry

\* C19: every do_ldap call comes to an end (it returns, or the process dies
\* in it) when every library call returns; it issues at most 2
\* add/modify/delete/rename operations and at most 2 do_bind calls; and its
\* retry counter starts at 2 and changes only by going down by one when the
\* operation just issued reported LDAP_SERVER_DOWN.
C19_TerminatesWithinTwoAttempts ==
    /\ [] RetryAccounting
    /\ [][ RetryStep => /\ retry' = retry - 1
                        /\ pc = "analyze"
                        /\ lderr = LDAP_SERVER_DOWN
                        /\ calls[Len(calls)].rc = LDAP_SERVER_DOWN ]_vars
    /\ (pc = "loop" ~> pc \in {"done", "crashed"})

\* a call that used both attempts: two operations, both reporting
\* LDAP_SERVER_DOWN, two do_bind calls, the counter at 0, and it has returned
C19_Witness ==
    /\ pc = "done"
    /\ Len(OpCalls) = 2
    /\ Cardinality(DownOps) = 2
    /\ Cardinality(EventsAt("do_bind")) = 2
    /\ retry = 0
    /\ result = DO_LDAP_ERR_FATAL

(* ============== more properties of the record handling =============== *)
\* mi without the separator lines that come before its first operator line
RECURSIVE DropLeadingSeparators(_)
DropLeadingSeparators(mi) ==
    IF mi = <<>> \/ IsOperatorLine(Head(mi)) THEN mi
    ELSE IF IsSeparatorLine(Head(mi)) THEN DropLeadingSeparators(Tail(mi))
    ELSE <<Head(mi)>> \o DropLeadingSeparators(Tail(mi))

\* the groups of ldmarr with each value pointer replaced by the value it
\* points to in mi
GroupsByValue(mi, ldmarr) ==
    [k \in 1..Len(ldmarr) |->
        [mod_op |-> ldmarr[k].mod_op,
         mod_type |-> ldmarr[k].mod_type,
         values |-> [a \in 1..Len(ldmarr[k].mod_bvalues) |->
                        mi[ldmarr[k].mod_bvalues[a]].mi_val]]]

\* op_ldap_modify has just run for the first time in this do_ldap call
FirstModifyDone ==
    /\ IsModify(re)
    /\ retry = RetryBudget
    /\ \/ pc = "analyze"
       \/ pc = "crashed" /\ calls[Len(calls)].fn = "died in op_ldap"

\* C20 as written: what op_ldap_modify did with the record (died or not,
\* called ldap_modify_s or not, with which groups, returned what) is
\* something it can do with the same record less the separator lines before
\* its first operator line.
C20_LeadingSeparatorsAreNoOps ==
    FirstModifyDone =>
        LET stripped == [re EXCEPT !.re_mods = DropLeadingSeparators(@)]
        IN  \E net \in NetRcs, ub \in UBOutcomes :
              LET o == op_ldap_modify(stripped, NULL, net, ub)
              IN  /\ o.crash = (pc = "crashed")
                  /\ o.called = (sent # <<>>)
                  /\ (pc # "crashed" => o.lderr = lderr)
                  /\ (sent # <<>> =>
                        GroupsByValue(stripped.re_mods, o.sent.ldmarr)
                          = GroupsByValue(re.re_mods, sent[1].ldmarr))

\* every value of every group of ldmarr points to a plain line of mi whose
\* tag is the group's attribute type up to case, and that line lies after
\* the group's operator line and before the next operator line
ValuesMatchType(mi, ldmarr) ==
    LET ops == OperatorLines(mi, 1) IN
    /\ Len(ldmarr) <= Len(ops)
    /\ \A k \in 1..Len(ldmarr) :
        \A a \in 1..Len(ldmarr[k].mod_bvalues) :
            LET v == ldmarr[k].mod_bvalues[a] IN
            /\ v \in 1..Len(mi)
            /\ IsPlainLine(mi[v])
            /\ StrCaseCmp(mi[v].mi_type, ldmarr[k].mod_type) = 0
            /\ ops[k] < v
            /\ (k < Len(ops) => v < ops[k + 1])

\* op_ldap_modify has run in this do_ldap call
ModifyHasRun ==
    /\ IsModify(re)
    /\ \/ pc \in {"analyze", "done"} /\ EventsAt("do_bind") # {}
       \/ pc = "crashed" /\ calls[Len(calls)].fn = "died in op_ldap"

\* C21: once op_ldap_modify has run on a record, in the group list it held
\* after each item of its pass (whatever the stray accesses of the pass did)
\* and in the list given to every ldap_modify_s call, each value of a
\* group comes from a plain line whose tag equals the group's attribute type
\* case-insensitively and which stands between that group's operator line
\* and the next, separator lines or not.
C21_NoMergedAttributes ==
    /\ \A k \in 1..Len(sent) :
        sent[k].fn = "ldap_modify_s" => ValuesMatchType(re.re_mods, sent[k].ldmarr)
    /\ ModifyHasRun =>
        \A n \in 0..Len(re.re_mods), ub \in UBOutcomes :
            ValuesMatchType(re.re_mods,
                ModifyLoop(ModifyStart, SubSeq(re.re_mods, 1, n), 1, ub).ldmarr)

\* ldap_modify_s was given a cn group whose value comes from a CN line that
\* follows a separator line
C21_Witness ==
    /\ Len(sent) > 0
    /\ sent[1].fn = "ldap_modify_s"
    /\ \E k \in 1..Len(sent[1].ldmarr) :
        /\ sent[1].ldmarr[k].mod_type = "cn"
        /\ \E a \in 1..Len(sent[1].ldmarr[k].mod_bvalues) :
            LET v == sent[1].ldmarr[k].mod_bvalues[a] IN
            /\ re.re_mods[v].mi_type = "CN"
            /\ IsSeparatorLine(re.re_mods[v - 1])

\* some operator line of mi is followed by no plain line carrying its
\* attribute before the next operator line or the end of the record
HasEmptyGroup(mi) ==
    \E j \in 1..Len(mi) :
        /\ IsOperatorLine(mi[j])
        /\ \A i \in (j + 1)..Len(mi) :
            \/ \E k \in (j + 1)..i : IsOperatorLine(mi[k])
            \/ ~IsPlainLine(mi[i])
            \/ StrCaseCmp(mi[i].mi_type, mi[j].mi_val) # 0

\* C22 as written: every group of every list given to ldap_modify_s has at
\* least one value, and a modify record with a group that receives no value
\* is rejected: no ldap_modify_s for it, and do_ldap, once past the bind,
\* returns DO_LDAP_ERR_FATAL.
C22_NoEmptyGroupSent ==
    /\ \A k \in 1..Len(sent) :
        sent[k].fn = "ldap_modify_s" =>
            \A g \in 1..Len(sent[k].ldmarr) : Len(sent[k].ldmarr[g].mod_bvalues) >= 1
    /\ (IsModify(re) /\ HasEmptyGroup(re.re_mods)) =>
        /\ OpCalls = <<>>
        /\ (Returned => Rejected)

(* ============== properties across a sequence of do_ldap calls ========= *)
\* within the do_ldap call in progress, every operation that reported
\* LDAP_SERVER_DOWN is followed at once by do_unbind (nothing else comes
\* between), unless the call is still analysing that result
DownThenUnbind ==
    \A i \in 1..Len(calls) :
        (IsOp(calls[i]) /\ calls[i].rc = LDAP_SERVER_DOWN) =>
            IF i = Len(calls) THEN pc = "analyze"
            ELSE calls[i + 1] = Call("do_unbind", calls[i].arg, 0)

\* what a returned do_ldap call leaves in ri_ldp: NULL when it returned
\* DO_LDAP_ERR_FATAL for want of retries, a handle when it returned DO_LDAP_OK
SessionAfterReturn ==
    pc = "done" =>
        /\ (result = DO_LDAP_ERR_FATAL /\ retry = 0 => ri.ri_ldp.ld_null)
        /\ (result = DO_LDAP_OK => ~ri.ri_ldp.ld_null)

\* C23 as written: over any sequence of do_ldap calls, a step that issues an
\* add/modify/delete/rename does so on a handle that has not reported
\* LDAP_SERVER_DOWN before; every operation that reports it is followed at
\* once by do_unbind; a call that returns DO_LDAP_ERR_FATAL with the retry
\* counter at 0 leaves ri_ldp NULL and one that returns DO_LDAP_OK leaves it
\* non-NULL.
C23_NoOperationOnDownHandle ==
    /\ [] (DownThenUnbind /\ SessionAfterReturn)
    /\ [][ Len(sent') > Len(sent) => ~ri.ri_ldp.ld_null /\ ~ri.ri_ldp.down ]_vars

=============================================================================
